---- MODULE Spec2Model ----
(***************************************************************************)
(* The HR leave-management dashboard: its working-day calculator, its      *)
(* login gate and session, its REST calls and the pages built on them.     *)
(*                                                                         *)
(*   utils/calculations.py : HOLIDAYS, is_working_day,                     *)
(*                           calcola_giorni_2025_2026                      *)
(*   views/home.py         : giorni_ferie_in_mese (monthly counter),       *)
(*                           the filters of render_home                    *)
(*   utils/auth.py, utils/db.py : session, login, logout, fetch and writes *)
(*   views/richieste.py, views/dipendenti.py : the forms and the import    *)
(*   app/app.py            : main, main_app and the single-file pages      *)
(*                                                                         *)
(* A calendar date is its proleptic Gregorian ordinal (0001-01-01 = 1), as *)
(* in datetime.date.  A pandas Timestamp at midnight is the number of days *)
(* since 1970-01-01; NaT is a sentinel outside every date.                 *)
(***************************************************************************)
EXTENDS Integers, Sequences, FiniteSets

VARIABLES
    HOLIDAYS,   \* utils.calculations.HOLIDAYS, the module-level set
    df_req,     \* the request table handed to the monthly counter
    op,         \* the calculator operation called last ("none" before any)
    args,       \* its arguments
    ret,        \* its return value
    frames,     \* the local variables of each caller running the monthly
                \* counter concurrently (<<>> when calls run one at a time)
    session_state,  \* st.session_state: the keys present, with their values
    sent        \* the HTTP requests sent by the operation run last, in order

vars == <<HOLIDAYS, df_req, op, args, ret, frames, session_state, sent>>

-----------------------------------------------------------------------------
(* Bounds of the model *)

\* calcola_giorni_2025_2026 is called on the dates within Margin days of a
\* year boundary (2025-01-01, 2026-01-01, 2027-01-01)
Margin == 3

\* is_working_day is called on the dates from Span days before the first
\* holiday to Span days after the last one
Span == 30

\* the request table has at most MaxRows rows
MaxRows == 2

\* the request table of a session of many calls has at most SeqRows rows
SeqRows == 1

\* the month window is computed for the years from YearSpan before 2025 to
\* YearSpan after 2026, and for the century years 1900, 2000 and 2100
YearSpan == 4

\* a fetch answers with at most FetchRows rows
FetchRows == 1

\* the request table of the edit page has at most EditRows rows
EditRows == 2

\* the file of a bulk import has at most ImportRows rows
ImportRows == 2

\* the tables the dashboard filters have at most HomeRows rows
HomeRows == 2

\* how many callers run the calculator at the same time
NumCallers == 2

\* the most rows of the table the concurrent callers share
ConcRows == 1

-----------------------------------------------------------------------------
(* datetime.date *)

is_leap(y) == y % 4 = 0 /\ (y % 100 # 0 \/ y % 400 = 0)

days_in_month(y, m) ==
    IF m = 2 THEN (IF is_leap(y) THEN 29 ELSE 28)
    ELSE IF m \in {4, 6, 9, 11} THEN 30 ELSE 31

days_before_year(y) ==
    (y - 1) * 365 + ((y - 1) \div 4) - ((y - 1) \div 100) + ((y - 1) \div 400)

RECURSIVE days_before_month(_, _)
days_before_month(y, m) ==
    IF m = 1 THEN 0 ELSE days_before_month(y, m - 1) + days_in_month(y, m - 1)

\* date(y, m, d): the date object, as its ordinal
date(y, m, d) == days_before_year(y) + days_before_month(y, m) + d

\* date.fromordinal(n), read as (year, month, day): what str(d) and
\* d.isoformat() print
isoformat(n) ==
    LET n0   == n - 1
        n400 == n0 \div 146097
        r400 == n0 % 146097
        n100 == r400 \div 36524
        r100 == r400 % 36524
        n4   == r100 \div 1461
        r4   == r100 % 1461
        n1   == r4 \div 365
        r1   == r4 % 365
        year == n400 * 400 + n100 * 100 + n4 * 4 + n1 + 1
        m    == CHOOSE k \in 1..12 :
                    /\ days_before_month(year, k) <= r1
                    /\ r1 < days_before_month(year, k) + days_in_month(year, k)
    IN  IF n1 = 4 \/ n100 = 4 THEN <<year - 1, 12, 31>>
        ELSE <<year, m, r1 - days_before_month(year, m) + 1>>

\* d.weekday(): Monday = 0 .. Sunday = 6
weekday(d) == (d + 6) % 7

max(a, b) == IF a >= b THEN a ELSE b
min(a, b) == IF a <= b THEN a ELSE b

-----------------------------------------------------------------------------
(* pandas Timestamp *)

\* 1970-01-01, the Timestamp epoch
EpochOrdinal == date(1970, 1, 1)

\* pd.to_datetime(x) of a date object: the midnight Timestamp of that day
to_datetime(d) == d - EpochOrdinal

\* Timestamp.date()
Timestamp_date(ts) == ts + EpochOrdinal

-----------------------------------------------------------------------------
(* utils/calculations.py *)

HolidayDates ==
    { date(2025, 12, 8),
      date(2025, 12, 25),
      date(2025, 12, 26),
      date(2026, 1, 1),
      date(2026, 1, 6) }

\* a plausible slip: "> 5" lets Saturday through
is_working_day_sat(d) ==
    IF weekday(d) > 5 THEN FALSE
    ELSE IF d \in HOLIDAYS THEN FALSE
    ELSE TRUE

\* a plausible slip: ">= 4" takes Friday for a weekend day
is_working_day_fri(d) ==
    IF weekday(d) >= 4 THEN FALSE
    ELSE IF d \in HOLIDAYS THEN FALSE
    ELSE TRUE

is_working_day(d) ==
    IF weekday(d) >= 5 THEN FALSE
    ELSE IF d \in HOLIDAYS THEN FALSE
    ELSE TRUE

\* The year split with one step of the code changed, for the slips below:
\* swap (line 39-40), clamp (max(0, ...)), plus (the "+ 1"), dec (the day of
\* y25_end), working (count only the days is_working_day accepts).
calcola_variant(data_inizio, data_fine, swap, clamp, plus, dec, working) ==
    LET start0 == Timestamp_date(to_datetime(data_inizio))
        end0   == Timestamp_date(to_datetime(data_fine))
        start  == IF swap /\ end0 < start0 THEN end0 ELSE start0
        end    == IF swap /\ end0 < start0 THEN start0 ELSE end0
        n(s, e) == IF working
                   THEN Cardinality({d \in s..e : is_working_day(d)})
                   ELSE IF clamp THEN max(0, (e - s) + plus) ELSE (e - s) + plus
    IN  << n(max(start, date(2025, 1, 1)), min(end, date(2025, 12, dec))),
           n(max(start, date(2026, 1, 1)), min(end, date(2026, 12, 31))) >>

\* slip: the docstring's "working-day counts" taken literally
calcola_working_days(data_inizio, data_fine) ==
    calcola_variant(data_inizio, data_fine, TRUE, TRUE, 1, 31, TRUE)

\* slip: the swap of a reversed interval forgotten
calcola_no_swap(data_inizio, data_fine) ==
    calcola_variant(data_inizio, data_fine, FALSE, TRUE, 1, 31, FALSE)

\* slip: the max(0, ...) clamp forgotten
calcola_no_clamp(data_inizio, data_fine) ==
    calcola_variant(data_inizio, data_fine, TRUE, FALSE, 1, 31, FALSE)

\* slip: the "+ 1" of the inclusive count forgotten
calcola_exclusive(data_inizio, data_fine) ==
    calcola_variant(data_inizio, data_fine, TRUE, TRUE, 0, 31, FALSE)

\* slip: 2025 closed on 30 December
calcola_short_2025(data_inizio, data_fine) ==
    calcola_variant(data_inizio, data_fine, TRUE, TRUE, 1, 30, FALSE)

\* slip: the 2026 window opened on 31 December 2025, a day that the 2025
\* window counts too
calcola_overlapping_years(data_inizio, data_fine) ==
    LET start0 == Timestamp_date(to_datetime(data_inizio))
        end0   == Timestamp_date(to_datetime(data_fine))
        start  == IF end0 < start0 THEN end0 ELSE start0
        end    == IF end0 < start0 THEN start0 ELSE end0
        s25 == max(start, date(2025, 1, 1))
        e25 == min(end, date(2025, 12, 31))
        s26 == max(start, date(2025, 12, 31))
        e26 == min(end, date(2026, 12, 31))
    IN  << max(0, (e25 - s25) + 1), max(0, (e26 - s26) + 1) >>

calcola_giorni_2025_2026(data_inizio, data_fine) ==
    LET start0 == Timestamp_date(to_datetime(data_inizio))
        end0   == Timestamp_date(to_datetime(data_fine))
        start  == IF end0 < start0 THEN end0 ELSE start0
        end    == IF end0 < start0 THEN start0 ELSE end0
        y25_start == date(2025, 1, 1)
        y25_end   == date(2025, 12, 31)
        y26_start == date(2026, 1, 1)
        y26_end   == date(2026, 12, 31)
        s25 == max(start, y25_start)
        e25 == min(end, y25_end)
        giorni_2025 == max(0, (e25 - s25) + 1)
        s26 == max(start, y26_start)
        e26 == min(end, y26_end)
        giorni_2026 == max(0, (e26 - s26) + 1)
    IN  <<giorni_2025, giorni_2026>>

-----------------------------------------------------------------------------
(* Inputs *)

YearBoundaries == { date(2025, 1, 1), date(2026, 1, 1), date(2027, 1, 1) }

CalcDates == UNION { (b - Margin)..(b + Margin) : b \in YearBoundaries }

DayDates == ((date(2025, 12, 8) - Span)..(date(2026, 1, 6) + Span)) \cup CalcDates

-----------------------------------------------------------------------------
(* The calculator called on dates: is_working_day, calcola_giorni_2025_2026 *)

InitCalc ==
    /\ HOLIDAYS = HolidayDates
    /\ df_req = <<>>
    /\ op = "none"
    /\ args = <<>>
    /\ ret = 0
    /\ frames = <<>>
    /\ session_state = <<>>
    /\ sent = <<>>

IsWorkingDayCall ==
    \E d \in DayDates :
        /\ op' = "is_working_day"
        /\ args' = <<d>>
        /\ ret' = is_working_day(d)
        /\ UNCHANGED <<HOLIDAYS, df_req, frames, session_state, sent>>

CalcolaCall ==
    \E a \in CalcDates, b \in CalcDates :
        /\ op' = "calcola_giorni_2025_2026"
        /\ args' = <<a, b>>
        /\ ret' = calcola_giorni_2025_2026(a, b)
        /\ UNCHANGED <<HOLIDAYS, df_req, frames, session_state, sent>>

NextCalc == IsWorkingDayCall \/ CalcolaCall

SpecCalc == InitCalc /\ [][NextCalc]_vars

-----------------------------------------------------------------------------
(* views/home.py: the monthly counter *)

\* A cell of the request table is the value the backend returned: an ISO
\* date string "YYYY-MM-DD", held as <<y, m, d>>, or None, held as <<>>.
None == <<>>

\* NaT, what errors="coerce" gives for a missing or unparseable value: the
\* lowest Timestamp (-2^63 ns), in days since the epoch
NaT == -106752

\* pd.Timestamp(year, month, day)
Timestamp(y, m, d) == date(y, m, d) - EpochOrdinal

\* pd.to_datetime(cell, errors="coerce")
to_datetime_coerce(x) ==
    IF /\ Len(x) = 3
       /\ x[2] \in 1..12
       /\ x[3] \in 1..days_in_month(x[1], x[2])
    THEN Timestamp(x[1], x[2], x[3])
    ELSE NaT

\* The monthly counter with one step of the code changed, for the slips
\* below: working (the is_working_day filter), dec (the day December ends
\* on), each (every row counted on its own, or the days of all rows merged).
giorni_variant(df, anno, mese, working, dec, each) ==
    LET rows == { i \in 1..Len(df) :
                    /\ to_datetime_coerce(df[i].data_inizio) # NaT
                    /\ to_datetime_coerce(df[i].data_fine) # NaT }
        a(i) == Timestamp_date(to_datetime_coerce(df[i].data_inizio))
        b(i) == Timestamp_date(to_datetime_coerce(df[i].data_fine))
        month_start == date(anno, mese, 1)
        month_end == IF mese = 12 THEN date(anno, 12, dec)
                     ELSE Timestamp_date(Timestamp(anno, mese + 1, 1) - 1)
        days(i) == { d \in max(min(a(i), b(i)), month_start)..min(max(a(i), b(i)), month_end) :
                       working => is_working_day(d) }
        pairs == { <<i, d>> \in rows \X (month_start..month_end) : d \in days(i) }
    IN  IF each THEN Cardinality(pairs)
        ELSE Cardinality({ p[2] : p \in pairs })

\* slip: every calendar day of the overlap counted, as the year split does
giorni_calendar_days(df, anno, mese) ==
    giorni_variant(df, anno, mese, FALSE, 31, TRUE)

\* slip: December closed on the 30th
giorni_short_december(df, anno, mese) ==
    giorni_variant(df, anno, mese, TRUE, 30, TRUE)

\* slip: a day requested by two rows counted once
giorni_distinct_days(df, anno, mese) ==
    giorni_variant(df, anno, mese, TRUE, 31, FALSE)

\* slip: a missing end date filled with the start date, as the period
\* filter of the page does (fillna), so that the row is counted
giorni_fillna(df, anno, mese) ==
    giorni_variant([ i \in 1..Len(df) |->
                       IF df[i].data_fine = None
                       THEN [ df[i] EXCEPT !.data_fine = df[i].data_inizio ]
                       ELSE df[i] ],
                   anno, mese, TRUE, 31, TRUE)

\* slip: the "- pd.Timedelta(days=1)" left out
month_window_no_step_back(anno, mese) ==
    << date(anno, mese, 1),
       IF mese = 12 THEN date(anno, 12, 31)
       ELSE Timestamp_date(Timestamp(anno, mese + 1, 1)) >>

\* lines 154-159: the first and the last day of the selected month
month_window(anno, mese) ==
    << date(anno, mese, 1),
       IF mese = 12 THEN date(anno, 12, 31)
       ELSE Timestamp_date(Timestamp(anno, mese + 1, 1) - 1) >>

\* lines 141-143: both date columns parsed, rows with a NaT dropped
parse_and_dropna(df) ==
    LET parsed == [ i \in 1..Len(df) |->
                      [ data_inizio |-> to_datetime_coerce(df[i].data_inizio),
                        data_fine   |-> to_datetime_coerce(df[i].data_fine) ] ]
    IN  SelectSeq(parsed, LAMBDA r : r.data_inizio # NaT /\ r.data_fine # NaT)

\* slip: ".values" left out of the assignment of lines 147-149: pandas then
\* aligns the two columns by name and nothing is exchanged
fix_swapped_aligned(df_local) == df_local

\* lines 146-149: the two dates of a reversed row exchanged
fix_swapped(df_local) ==
    [ i \in 1..Len(df_local) |->
        IF df_local[i].data_fine < df_local[i].data_inizio
        THEN [ data_inizio |-> df_local[i].data_fine,
               data_fine   |-> df_local[i].data_inizio ]
        ELSE df_local[i] ]

\* lines 163-177: the loop over the rows, from row i on, with the running total
RECURSIVE iterrows(_, _, _, _, _)
iterrows(df_local, i, total, month_start, month_end) ==
    IF i > Len(df_local) THEN total
    ELSE
      LET start == Timestamp_date(df_local[i].data_inizio)
          end   == Timestamp_date(df_local[i].data_fine)
          s == max(start, month_start)
          e == min(end, month_end)
          \* pd.date_range(s, e, freq="D"), then d.date() of each Timestamp
          days == { to_datetime(d) : d \in s..e }
          working_days == { d \in days : is_working_day(Timestamp_date(d)) }
      IN  IF e < s
          THEN iterrows(df_local, i + 1, total, month_start, month_end)
          ELSE iterrows(df_local, i + 1, total + Cardinality(working_days),
                        month_start, month_end)

giorni_ferie_in_mese(df, anno, mese) ==
    IF df = <<>> THEN 0
    ELSE
      LET df_local == fix_swapped(parse_and_dropna(df))
          month_start == month_window(anno, mese)[1]
          month_end == month_window(anno, mese)[2]
      IN  IF df_local = <<>> THEN 0
          ELSE iterrows(df_local, 1, 0, month_start, month_end)

-----------------------------------------------------------------------------
(* The monthly counter called on a request table *)

\* the values a date cell of the table takes
Cells == { <<2025, 12, 1>>, <<2025, 12, 31>>, <<2026, 1, 7>>, None }

Rows == [ data_inizio : Cells, data_fine : Cells ]

Tables == UNION { [1..n -> Rows] : n \in 0..MaxRows }

\* the "Anno" and "Mese" select boxes
Anni == {2025, 2026}
Mesi == 1..12

InitMonth ==
    /\ HOLIDAYS = HolidayDates
    /\ df_req \in Tables
    /\ op = "none"
    /\ args = <<>>
    /\ ret = 0
    /\ frames = <<>>
    /\ session_state = <<>>
    /\ sent = <<>>

\* line 197: one run of render_home calls the counter once, on the table it
\* was given and the selected year and month
GiorniFerieInMeseCall ==
    \E anno \in Anni, mese \in Mesi :
        /\ op = "none"
        /\ op' = "giorni_ferie_in_mese"
        /\ args' = <<anno, mese>>
        /\ ret' = giorni_ferie_in_mese(df_req, anno, mese)
        /\ UNCHANGED <<HOLIDAYS, df_req, frames, session_state, sent>>

NextMonth == GiorniFerieInMeseCall

SpecMonth == InitMonth /\ [][NextMonth]_vars

-----------------------------------------------------------------------------
(* The calculator called on any value, well-formed or not *)

\* A value handed to calcola_giorni_2025_2026 is a date object, held as
\* <<ordinal>>, or what a cell of the table holds: an ISO string or None.
DateObject(d) == <<d>>

\* "2025-02-30", a string that names no date
BadDate == <<2025, 2, 30>>

\* lines 35-36: the exception pd.to_datetime(x).date() ends with, "" when it
\* returns.  errors="coerce" is not passed: an unparseable string raises;
\* pd.to_datetime(None) is None, which has no .date().
to_datetime_date_error(x) ==
    IF x = None THEN "AttributeError"
    ELSE IF Len(x) = 3 /\ to_datetime_coerce(x) = NaT THEN "ValueError"
    ELSE ""

\* lines 35-36: the date pd.to_datetime(x).date() returns
to_datetime_date(x) ==
    IF Len(x) = 1 THEN Timestamp_date(to_datetime(x[1]))
    ELSE Timestamp_date(to_datetime_coerce(x))

\* calcola_giorni_2025_2026 on any two values: the pair of counts, or
\* <<exception>> when line 35 or line 36 raises
calcola_call(data_inizio, data_fine) ==
    IF to_datetime_date_error(data_inizio) # ""
    THEN <<to_datetime_date_error(data_inizio)>>
    ELSE IF to_datetime_date_error(data_fine) # ""
    THEN <<to_datetime_date_error(data_fine)>>
    ELSE calcola_giorni_2025_2026(to_datetime_date(data_inizio),
                                  to_datetime_date(data_fine))

\* the cells of a table with missing and unparseable dates
DirtyCells == { <<2025, 12, 1>>, <<2025, 12, 31>>, None, BadDate }

DirtyRows == [ data_inizio : DirtyCells, data_fine : DirtyCells ]

RawValues ==
    DirtyCells \cup { DateObject(date(c[1], c[2], c[3])) : c \in Cells \ {None} }

\* the tables of at most one row
RawTables == { <<>> } \cup { <<r>> : r \in DirtyRows }

DirtyTables == UNION { [1..n -> DirtyRows] : n \in 0..MaxRows }

\* the monthly counter called on a table with missing and unparseable dates
InitDirty ==
    /\ HOLIDAYS = HolidayDates
    /\ df_req \in DirtyTables
    /\ op = "none"
    /\ args = <<>>
    /\ ret = 0
    /\ frames = <<>>
    /\ session_state = <<>>
    /\ sent = <<>>

SpecDirty == InitDirty /\ [][NextMonth]_vars

InitRaw ==
    /\ HOLIDAYS = HolidayDates
    /\ df_req \in RawTables
    /\ op = "none"
    /\ args = <<>>
    /\ ret = 0
    /\ frames = <<>>
    /\ session_state = <<>>
    /\ sent = <<>>

CalcolaRawCall ==
    \E x \in RawValues, y \in RawValues :
        /\ op' = "calcola_giorni_2025_2026"
        /\ args' = <<x, y>>
        /\ ret' = calcola_call(x, y)
        /\ UNCHANGED <<HOLIDAYS, df_req, frames, session_state, sent>>

NextRaw == CalcolaRawCall \/ IsWorkingDayCall \/ GiorniFerieInMeseCall

SpecRaw == InitRaw /\ [][NextRaw]_vars

-----------------------------------------------------------------------------
(* A session: any sequence of calls of the three operations, in any order, *)
(* on one request table                                                    *)

SeqTables == UNION { [1..n -> Rows] : n \in 0..SeqRows }

\* the dates of the table's cells, Christmas 2025 and a day after 2026
SeqDates ==
    { date(c[1], c[2], c[3]) : c \in Cells \ {None} }
        \cup { date(2025, 12, 25), date(2027, 1, 1) }

InitSeq ==
    /\ HOLIDAYS = HolidayDates
    /\ df_req \in SeqTables
    /\ op = "none"
    /\ args = <<>>
    /\ ret = 0
    /\ frames = <<>>
    /\ session_state = <<>>
    /\ sent = <<>>

\* slip: the days asked about remembered in the module-level set
SeqIsWorkingDay_remember ==
    \E d \in SeqDates :
        /\ op' = "is_working_day"
        /\ args' = <<d>>
        /\ ret' = is_working_day(d)
        /\ HOLIDAYS' = HOLIDAYS \cup {d}
        /\ UNCHANGED <<df_req, frames, session_state, sent>>

SeqIsWorkingDay ==
    \E d \in SeqDates :
        /\ op' = "is_working_day"
        /\ args' = <<d>>
        /\ ret' = is_working_day(d)
        /\ UNCHANGED <<HOLIDAYS, df_req, frames, session_state, sent>>

SeqCalcola ==
    \E a \in SeqDates, b \in SeqDates :
        /\ op' = "calcola_giorni_2025_2026"
        /\ args' = <<a, b>>
        /\ ret' = calcola_giorni_2025_2026(a, b)
        /\ UNCHANGED <<HOLIDAYS, df_req, frames, session_state, sent>>

\* slip: df.copy() left out, so that the rows without a date are dropped
\* from, and the reversed rows exchanged in, the caller's table
SeqGiorniFerieInMese_in_place ==
    \E anno \in Anni, mese \in Mesi :
        /\ op' = "giorni_ferie_in_mese"
        /\ args' = <<anno, mese>>
        /\ ret' = giorni_ferie_in_mese(df_req, anno, mese)
        /\ df_req' =
              LET kept == SelectSeq(df_req, LAMBDA r :
                              /\ to_datetime_coerce(r.data_inizio) # NaT
                              /\ to_datetime_coerce(r.data_fine) # NaT)
              IN  [ i \in 1..Len(kept) |->
                      IF to_datetime_coerce(kept[i].data_fine)
                           < to_datetime_coerce(kept[i].data_inizio)
                      THEN [ data_inizio |-> kept[i].data_fine,
                             data_fine   |-> kept[i].data_inizio ]
                      ELSE kept[i] ]
        /\ UNCHANGED <<HOLIDAYS, frames, session_state, sent>>

SeqGiorniFerieInMese ==
    \E anno \in Anni, mese \in Mesi :
        /\ op' = "giorni_ferie_in_mese"
        /\ args' = <<anno, mese>>
        /\ ret' = giorni_ferie_in_mese(df_req, anno, mese)
        /\ UNCHANGED <<HOLIDAYS, df_req, frames, session_state, sent>>

NextSeq == SeqIsWorkingDay \/ SeqCalcola \/ SeqGiorniFerieInMese

SpecSeq == InitSeq /\ [][NextSeq]_vars

-----------------------------------------------------------------------------
(* The month window of the monthly counter, for any year *)

WindowYears == ((2025 - YearSpan)..(2026 + YearSpan)) \cup {1900, 2000, 2100}

MonthWindowCall ==
    \E anno \in WindowYears, mese \in Mesi :
        /\ op' = "month_window"
        /\ args' = <<anno, mese>>
        /\ ret' = month_window(anno, mese)
        /\ UNCHANGED <<HOLIDAYS, df_req, frames, session_state, sent>>

NextWindow == MonthWindowCall

SpecWindow == InitCalc /\ [][NextWindow]_vars

-----------------------------------------------------------------------------
(* Concurrent callers: each runs one call of the calculator, the calls     *)
(* interleaved row by row; the request table and HOLIDAYS are shared, the  *)
(* local variables of a call live in the caller's frame                    *)

Callers == 1..NumCallers

ConcCells == { <<2025, 12, 1>>, <<2026, 1, 7>> }

ConcTables ==
    UNION { [1..n -> [ data_inizio : ConcCells, data_fine : ConcCells ]] :
              n \in 0..ConcRows }

ConcDates == { date(2025, 12, 25), date(2026, 1, 7) }

ConcMonths == { <<2025, 12>>, <<2026, 1>> }

\* a caller that has not called yet
Idle ==
    [ pc |-> "idle", op |-> "none", args |-> <<>>, df_local |-> <<>>,
      i |-> 0, total |-> 0, ret |-> 0 ]

InitConc ==
    /\ HOLIDAYS = HolidayDates
    /\ df_req \in ConcTables
    /\ op = "none"
    /\ args = <<>>
    /\ ret = 0
    /\ frames = [ c \in Callers |-> Idle ]
    /\ session_state = <<>>
    /\ sent = <<>>

ConcIsWorkingDay ==
    \E c \in Callers, d \in ConcDates :
        /\ frames[c].pc = "idle"
        /\ frames' = [ frames EXCEPT ![c] =
                         [ @ EXCEPT !.pc = "done", !.op = "is_working_day",
                                    !.args = <<d>>,
                                    !.ret = is_working_day(d) ] ]
        /\ UNCHANGED <<HOLIDAYS, df_req, op, args, ret, session_state, sent>>

ConcCalcola ==
    \E c \in Callers, a \in ConcDates, b \in ConcDates :
        /\ frames[c].pc = "idle"
        /\ frames' = [ frames EXCEPT ![c] =
                         [ @ EXCEPT !.pc = "done",
                                    !.op = "calcola_giorni_2025_2026",
                                    !.args = <<a, b>>,
                                    !.ret = calcola_giorni_2025_2026(a, b) ] ]
        /\ UNCHANGED <<HOLIDAYS, df_req, op, args, ret, session_state, sent>>

\* lines 137-161: the early return on an empty table, the private copy
\* parsed, cleaned and put in order, the early return when nothing is
\* left, and "total = 0"
ConcGiorniEnter ==
    \E c \in Callers, am \in ConcMonths :
        /\ frames[c].pc = "idle"
        /\ LET df_local == fix_swapped(parse_and_dropna(df_req))
           IN  frames' = [ frames EXCEPT ![c] =
                   IF df_req = <<>> \/ df_local = <<>>
                   THEN [ @ EXCEPT !.pc = "done", !.op = "giorni_ferie_in_mese",
                                   !.args = am, !.ret = 0 ]
                   ELSE [ @ EXCEPT !.pc = "loop", !.op = "giorni_ferie_in_mese",
                                   !.args = am, !.df_local = df_local,
                                   !.i = 1, !.total = 0 ] ]
        /\ UNCHANGED <<HOLIDAYS, df_req, op, args, ret, session_state, sent>>

\* slip: the running total kept in a module-level variable that all
\* callers add to
ConcGiorniRow_shared_total ==
    \E c \in Callers :
        /\ frames[c].pc = "loop"
        /\ frames[c].i <= Len(frames[c].df_local)
        /\ LET f == frames[c]
               w == month_window(f.args[1], f.args[2])
               t == iterrows(SubSeq(f.df_local, f.i, f.i), 1, ret, w[1], w[2])
           IN  /\ ret' = t
               /\ frames' = [ frames EXCEPT ![c] =
                                [ @ EXCEPT !.i = f.i + 1, !.total = t ] ]
        /\ UNCHANGED <<HOLIDAYS, df_req, op, args, session_state, sent>>

\* lines 163-177: one pass of the loop, on row i of the caller's copy
ConcGiorniRow ==
    \E c \in Callers :
        /\ frames[c].pc = "loop"
        /\ frames[c].i <= Len(frames[c].df_local)
        /\ LET f == frames[c]
               w == month_window(f.args[1], f.args[2])
           IN  frames' = [ frames EXCEPT ![c] =
                   [ @ EXCEPT !.i = f.i + 1,
                              !.total = iterrows(SubSeq(f.df_local, f.i, f.i),
                                                 1, f.total, w[1], w[2]) ] ]
        /\ UNCHANGED <<HOLIDAYS, df_req, op, args, ret, session_state, sent>>

\* line 179: "return total" once the loop has run out of rows
ConcGiorniReturn ==
    \E c \in Callers :
        /\ frames[c].pc = "loop"
        /\ frames[c].i > Len(frames[c].df_local)
        /\ frames' = [ frames EXCEPT ![c] =
                         [ @ EXCEPT !.pc = "done", !.ret = frames[c].total ] ]
        /\ UNCHANGED <<HOLIDAYS, df_req, op, args, ret, session_state, sent>>

NextConc ==
    \/ ConcIsWorkingDay
    \/ ConcCalcola
    \/ ConcGiorniEnter
    \/ ConcGiorniRow
    \/ ConcGiorniReturn

SpecConc == InitConc /\ [][NextConc]_vars

-----------------------------------------------------------------------------
(* The session and the login against the auth endpoint                     *)
(*                                                                         *)
(* st.session_state is the function from the keys present to their values. *)
(* A call returns <<"return", value>> or ends in <<"raise", exception>>.   *)
(* A response is its status code and its JSON body.                        *)

\* settings/constants.py: API_KEY = st.secrets["SUPABASE_ANON_KEY"]
API_KEY == "anon-key"

\* st.session_state[key] = value
setitem(s, key, value) ==
    [ k \in (DOMAIN s) \cup {key} |-> IF k = key THEN value ELSE s[k] ]

\* st.session_state.pop(key, None)
pop(s, key) == [ k \in (DOMAIN s) \ {key} |-> s[k] ]

\* the addresses typed in the login form or named in a response
Emails == { "hr@x.it", "ops@x.it" }

\* the JSON bodies the auth endpoint answers with: a token with its user, a
\* token without a user, a token with a user without an address, no token
AuthBodies ==
    { [ access_token |-> "jwt", user |-> [ email |-> e ] ] : e \in Emails }
        \cup { [ access_token |-> "jwt" ],
               [ access_token |-> "jwt", user |-> <<>> ],
               [ error |-> "invalid_grant" ] }

AuthResponses == [ status_code : {200, 201, 400}, json : AuthBodies ]

\* the request login sends
login_request(email, password) ==
    [ method  |-> "POST",
      url     |-> "/auth/v1/token?grant_type=password",
      headers |-> [ apikey |-> API_KEY, Content_Type |-> "application/json" ],
      json    |-> [ email |-> email, password |-> password ] ]

\* slip: any 2xx status taken for a success
auth_login_any_2xx(s, email, password, r) ==
    IF r.status_code < 300 /\ "access_token" \in DOMAIN r.json
    THEN [ ret |-> <<"return", TRUE>>,
           session_state |-> setitem(s, "access_token", r.json["access_token"]) ]
    ELSE [ ret |-> <<"return", FALSE>>, session_state |-> s ]

\* utils/auth.py login, given the response r of its request
auth_login(s, email, password, r) ==
    IF r.status_code = 200
    THEN LET data == r.json IN
         IF "access_token" \notin DOMAIN data
         THEN [ ret |-> <<"raise", "KeyError">>, session_state |-> s ]
         ELSE LET s1 == setitem(s, "access_token", data["access_token"]) IN
              IF "user" \notin DOMAIN data \/ "email" \notin DOMAIN data["user"]
              THEN [ ret |-> <<"raise", "KeyError">>, session_state |-> s1 ]
              ELSE [ ret |-> <<"return", TRUE>>,
                     session_state |-> setitem(s1, "user_email", data["user"]["email"]) ]
    ELSE [ ret |-> <<"return", FALSE>>, session_state |-> s ]

\* slip: the token stored before the status is looked at
app_login_store_first(s, email, password, r) ==
    IF "access_token" \in DOMAIN r.json
    THEN [ ret |-> <<"return", r.status_code = 200>>,
           session_state |-> setitem(s, "access_token", r.json["access_token"]) ]
    ELSE [ ret |-> <<"return", FALSE>>, session_state |-> s ]

\* app/app.py login, given the response r of its request
app_login(s, email, password, r) ==
    IF r.status_code = 200
    THEN LET data == r.json IN
         IF "access_token" \notin DOMAIN data
         THEN [ ret |-> <<"raise", "KeyError">>, session_state |-> s ]
         ELSE LET s1 == setitem(s, "access_token", data["access_token"])
                  \* data.get("user", {})
                  user == IF "user" \in DOMAIN data THEN data["user"] ELSE <<>>
                  \* user.get("email", email)
                  user_email == IF "email" \in DOMAIN user THEN user["email"] ELSE email
              IN  [ ret |-> <<"return", TRUE>>,
                    session_state |-> setitem(s1, "user_email", user_email) ]
    ELSE [ ret |-> <<"return", FALSE>>, session_state |-> s ]

\* utils/auth.py logout
logout(s) == pop(pop(s, "access_token"), "user_email")

\* app/app.py logout
app_logout(s) == pop(pop(s, "access_token"), "user_email")

InitAuth ==
    /\ HOLIDAYS = HolidayDates
    /\ df_req = <<>>
    /\ op = "none"
    /\ args = <<>>
    /\ ret = <<"return", None>>
    /\ frames = <<>>
    /\ session_state = <<>>
    /\ sent = <<>>

AuthLoginCall ==
    \E email \in Emails, r \in AuthResponses :
        /\ op' = "utils.auth.login"
        /\ args' = <<email, "pw", r>>
        /\ sent' = <<login_request(email, "pw")>>
        /\ ret' = auth_login(session_state, email, "pw", r).ret
        /\ session_state' = auth_login(session_state, email, "pw", r).session_state
        /\ UNCHANGED <<HOLIDAYS, df_req, frames>>

AppLoginCall ==
    \E email \in Emails, r \in AuthResponses :
        /\ op' = "app.login"
        /\ args' = <<email, "pw", r>>
        /\ sent' = <<login_request(email, "pw")>>
        /\ ret' = app_login(session_state, email, "pw", r).ret
        /\ session_state' = app_login(session_state, email, "pw", r).session_state
        /\ UNCHANGED <<HOLIDAYS, df_req, frames>>

AuthLogoutCall ==
    /\ op' = "utils.auth.logout"
    /\ args' = <<>>
    /\ ret' = <<"return", None>>
    /\ session_state' = logout(session_state)
    /\ sent' = <<>>
    /\ UNCHANGED <<HOLIDAYS, df_req, frames>>

AppLogoutCall ==
    /\ op' = "app.logout"
    /\ args' = <<>>
    /\ ret' = <<"return", None>>
    /\ session_state' = app_logout(session_state)
    /\ sent' = <<>>
    /\ UNCHANGED <<HOLIDAYS, df_req, frames>>

NextAuth == AuthLoginCall \/ AppLoginCall \/ AuthLogoutCall \/ AppLogoutCall

SpecAuth == InitAuth /\ [][NextAuth]_vars

-----------------------------------------------------------------------------
(* The REST calls of utils/db.py                                           *)
(*                                                                         *)
(* A DataFrame is the sequence of its rows; pd.DataFrame() is <<>>.        *)

\* settings/constants.py: TABLE_DIPENDENTI, TABLE_RICHIESTE
TABLE_DIPENDENTI == "dipendenti"

TABLE_RICHIESTE == "richieste_ferie"

\* slip: the headers built even when the session holds no token
get_auth_headers_always(s) ==
    [ apikey        |-> API_KEY,
      Authorization |-> "Bearer " \o (IF "access_token" \in DOMAIN s THEN s["access_token"] ELSE ""),
      Content_Type  |-> "application/json" ]

\* utils/auth.py get_auth_headers: None when the token is missing or empty
get_auth_headers(s) ==
    IF "access_token" \notin DOMAIN s \/ s["access_token"] = ""
    THEN None
    ELSE [ apikey        |-> API_KEY,
           Authorization |-> "Bearer " \o s["access_token"],
           Content_Type  |-> "application/json" ]

\* the rows the backend holds for an employee
DipRows == { [ email |-> e ] : e \in Emails }

\* what r.json() of a fetch gives: a list of rows, an object that is not a
\* table (pd.DataFrame raises on it), or no JSON at all (r.json() raises)
FetchBodies ==
    { [ kind |-> "rows", rows |-> t ] :
        t \in UNION { [1..n -> DipRows] : n \in 0..FetchRows } }
      \cup { [ kind |-> "object" ], [ kind |-> "not_json" ] }

FetchResponses == [ status_code : {200, 401}, json : FetchBodies ]

\* slip: pd.DataFrame(r.json()) outside a try block
fetch_table_no_try(s, table, r) ==
    LET headers == get_auth_headers(s)
        get == [ method |-> "GET", url |-> "/rest/v1/" \o table \o "?select=*",
                 headers |-> headers, json |-> None ]
    IN  IF headers = None THEN [ ret |-> <<"return", <<>>>>, sent |-> <<>> ]
        ELSE IF r.status_code # 200 THEN [ ret |-> <<"return", <<>>>>, sent |-> <<get>> ]
        ELSE IF r.json.kind = "rows" THEN [ ret |-> <<"return", r.json.rows>>, sent |-> <<get>> ]
        ELSE [ ret |-> <<"raise", "ValueError">>, sent |-> <<get>> ]

\* utils/db.py fetch_table, given the response r its request gets if sent
fetch_table(s, table, r) ==
    LET headers == get_auth_headers(s)
        get == [ method |-> "GET", url |-> "/rest/v1/" \o table \o "?select=*",
                 headers |-> headers, json |-> None ]
    IN  IF headers = None
        THEN [ ret |-> <<"return", <<>>>>, sent |-> <<>> ]
        ELSE IF r.status_code # 200
        THEN [ ret |-> <<"return", <<>>>>, sent |-> <<get>> ]
        ELSE IF r.json.kind = "rows"
        THEN [ ret |-> <<"return", r.json.rows>>, sent |-> <<get>> ]
        \* except Exception: return pd.DataFrame()
        ELSE [ ret |-> <<"return", <<>>>>, sent |-> <<get>> ]

\* utils/db.py db_insert: the request it sends
db_insert(s, table, payload) ==
    [ method |-> "POST", url |-> "/rest/v1/" \o table,
      headers |-> get_auth_headers(s), json |-> payload ]

\* utils/db.py db_update: the request it sends
db_update(s, table, where, payload) ==
    [ method |-> "PATCH", url |-> "/rest/v1/" \o table \o "?" \o where,
      headers |-> get_auth_headers(s), json |-> payload ]

\* utils/db.py db_delete: the request it sends
db_delete(s, table, where) ==
    [ method |-> "DELETE", url |-> "/rest/v1/" \o table \o "?" \o where,
      headers |-> get_auth_headers(s), json |-> None ]

DbTables == { TABLE_DIPENDENTI, TABLE_RICHIESTE }

\* the status and text of the answer to a write
WriteResponses == [ status_code : {201, 409}, text : {""} ]

DbWheres == { "email=eq.hr@x.it", "id=eq.7" }

FetchTableCall ==
    \E table \in DbTables, r \in FetchResponses :
        /\ op' = "fetch_table"
        /\ args' = <<table, r>>
        /\ ret' = fetch_table(session_state, table, r).ret
        /\ sent' = fetch_table(session_state, table, r).sent
        /\ UNCHANGED <<HOLIDAYS, df_req, frames, session_state>>

DbInsertCall ==
    \E table \in DbTables, payload \in DipRows, r \in WriteResponses :
        /\ op' = "db_insert"
        /\ args' = <<table, payload>>
        /\ sent' = <<db_insert(session_state, table, payload)>>
        /\ ret' = <<"return", r>>
        /\ UNCHANGED <<HOLIDAYS, df_req, frames, session_state>>

DbUpdateCall ==
    \E table \in DbTables, where \in DbWheres, payload \in DipRows, r \in WriteResponses :
        /\ op' = "db_update"
        /\ args' = <<table, where, payload>>
        /\ sent' = <<db_update(session_state, table, where, payload)>>
        /\ ret' = <<"return", r>>
        /\ UNCHANGED <<HOLIDAYS, df_req, frames, session_state>>

DbDeleteCall ==
    \E table \in DbTables, where \in DbWheres, r \in WriteResponses :
        /\ op' = "db_delete"
        /\ args' = <<table, where>>
        /\ sent' = <<db_delete(session_state, table, where)>>
        /\ ret' = <<"return", r>>
        /\ UNCHANGED <<HOLIDAYS, df_req, frames, session_state>>

NextDb ==
    \/ AuthLoginCall
    \/ AuthLogoutCall
    \/ FetchTableCall
    \/ DbInsertCall
    \/ DbUpdateCall
    \/ DbDeleteCall

SpecDb == InitAuth /\ [][NextDb]_vars

-----------------------------------------------------------------------------
(* One run of the script app/app.py: main, and main_app behind the gate    *)
(*                                                                         *)
(* A run ends with what it showed: the login form or the main app with the *)
(* section rendered, whether it asked for a rerun, and the exception that  *)
(* ended it, if any.                                                       *)

\* app/app.py get_auth_headers
app_get_auth_headers(s) ==
    IF "access_token" \notin DOMAIN s \/ s["access_token"] = ""
    THEN None
    ELSE [ apikey        |-> API_KEY,
           Authorization |-> "Bearer " \o s["access_token"],
           Content_Type  |-> "application/json" ]

\* app/app.py fetch_table, given the response r its request gets if sent
app_fetch_table(s, table, r) ==
    LET headers == app_get_auth_headers(s)
        get == [ method |-> "GET", url |-> "/rest/v1/" \o table \o "?select=*",
                 headers |-> headers, json |-> None ]
    IN  IF headers = None
        THEN [ ret |-> <<"return", <<>>>>, sent |-> <<>> ]
        ELSE IF r.status_code = 200
        THEN IF r.json.kind = "rows"
             THEN [ ret |-> <<"return", r.json.rows>>, sent |-> <<get>> ]
             ELSE [ ret |-> <<"return", <<>>>>, sent |-> <<get>> ]
        ELSE [ ret |-> <<"return", <<>>>>, sent |-> <<get>> ]

Sections == { "Home", "Dipendenti", "Richieste ferie" }

\* what a run showed
Shown(page, section, rerun, raised) ==
    [ shown |-> page, section |-> section, rerun |-> rerun, raised |-> raised ]

InitMain ==
    /\ HOLIDAYS = HolidayDates
    /\ df_req = <<>>
    /\ op = "none"
    /\ args = <<>>
    /\ ret = Shown("nothing", "none", FALSE, "none")
    /\ frames = <<>>
    /\ session_state = <<>>
    /\ sent = <<>>

\* slip: the gate left open, main_app entered whatever the session holds
gate_open(s) == TRUE

\* line 858: "access_token" in st.session_state
gate(s) == "access_token" \in DOMAIN s

\* lines 858-871: no token, the login form shown and nothing submitted
MainLoginForm ==
    /\ ~gate(session_state)
    /\ op' = "main"
    /\ args' = <<"none">>
    /\ ret' = Shown("login_form", "none", FALSE, "none")
    /\ sent' = <<>>
    /\ UNCHANGED <<HOLIDAYS, df_req, frames, session_state>>

\* lines 858-871: no token, the login form submitted; a run started by
\* st.rerun() has no widget pressed
MainLoginSubmit ==
    \E email \in Emails, r \in AuthResponses :
        LET out == app_login(session_state, email, "pw", r) IN
        /\ ~gate(session_state)
        /\ ~ret.rerun
        /\ op' = "main"
        /\ args' = <<"Login", email, r>>
        /\ sent' = <<login_request(email, "pw")>>
        /\ session_state' = out.session_state
        /\ ret' = IF out.ret[1] = "raise"
                  THEN Shown("login_form", "none", FALSE, out.ret[2])
                  ELSE Shown("login_form", "none", out.ret[2], "none")
        /\ UNCHANGED <<HOLIDAYS, df_req, frames>>

\* lines 815-818: the Logout button of the sidebar
MainLogout ==
    /\ gate(session_state)
    /\ ~ret.rerun
    /\ op' = "main"
    /\ args' = <<"Logout">>
    /\ session_state' = app_logout(session_state)
    /\ sent' = <<>>
    /\ ret' = Shown("main_app", "none", TRUE, "none")
    /\ UNCHANGED <<HOLIDAYS, df_req, frames>>

\* lines 821-853: the section chosen, both tables fetched, the page rendered
MainRender ==
    \E section \in Sections, r1 \in FetchResponses, r2 \in FetchResponses :
        LET df_dip  == app_fetch_table(session_state, "dipendenti", r1)
            df_ric  == app_fetch_table(session_state, "richieste_ferie", r2)
        IN
        /\ gate(session_state)
        /\ op' = "main"
        /\ args' = <<"none", section, df_dip.ret[2], df_ric.ret[2]>>
        /\ sent' = df_dip.sent \o df_ric.sent
        /\ ret' = Shown("main_app", section, FALSE, "none")
        /\ UNCHANGED <<HOLIDAYS, df_req, frames, session_state>>

\* lines 455-461 and 502-528 behind lines 821-853: the Dipendenti section
\* with the form "Aggiungi singolo" submitted
MainAddDipendente ==
    \E payload \in DipRows, r1 \in FetchResponses, r2 \in FetchResponses :
        LET df_dip  == app_fetch_table(session_state, "dipendenti", r1)
            df_ric  == app_fetch_table(session_state, "richieste_ferie", r2)
            headers == app_get_auth_headers(session_state)
            post == [ method |-> "POST", url |-> "/rest/v1/dipendenti",
                      headers |-> headers, json |-> payload ]
        IN
        /\ gate(session_state)
        /\ ~ret.rerun
        /\ op' = "main"
        /\ args' = <<"Aggiungi", "Dipendenti", df_dip.ret[2], df_ric.ret[2], payload>>
        /\ sent' = df_dip.sent \o df_ric.sent
                      \o (IF headers = None THEN <<>> ELSE <<post>>)
        /\ ret' = Shown("main_app", "Dipendenti", FALSE, "none")
        /\ UNCHANGED <<HOLIDAYS, df_req, frames, session_state>>

NextMain ==
    \/ MainLoginForm
    \/ MainLoginSubmit
    \/ MainLogout
    \/ MainRender
    \/ MainAddDipendente

SpecMain == InitMain /\ [][NextMain]_vars

-----------------------------------------------------------------------------
(* The pages of views/richieste.py: the new-request form and the edit form *)
(*                                                                         *)
(* A render is given what the user enters and the button the user means to *)
(* press; it returns, or ends in the exception of the line that raises.    *)

\* a session behind the login gate
LoggedIn == [ access_token |-> "jwt", user_email |-> "hr@x.it" ]

\* the rows of the request table the page is given; an id is held as the
\* string str() makes of it
EditRowsSet ==
    [ id : {"7", "8"}, dipendente_email : {"hr@x.it"},
      data_inizio : { <<2025, 12, 29>> }, data_fine : { <<2026, 1, 2>>, None },
      status : {"PENDING", "DRAFT"} ]

EditTables == UNION { [1..n -> EditRowsSet] : n \in 0..EditRows }

\* the dates picked in st.date_input
FormDates == { date(2025, 12, 29), date(2026, 1, 2) }

\* the statuses of the st.selectbox of the edit form
StatusOptions == <<"PENDING", "APPROVED", "REJECTED", "CANCELLED">>

InitRichieste ==
    /\ HOLIDAYS = HolidayDates
    /\ df_req \in EditTables
    /\ op = "none"
    /\ args = <<>>
    /\ ret = <<"return", None>>
    /\ frames = <<>>
    /\ session_state = LoggedIn
    /\ sent = <<>>

\* lines 124-135: the payload of the new-request form
add_payload(email, data_inizio, data_fine, motivo) ==
    LET g == calcola_giorni_2025_2026(data_inizio, data_fine) IN
    [ dipendente_email |-> email,
      data_inizio |-> isoformat(data_inizio),
      data_fine |-> isoformat(data_fine),
      motivo |-> motivo,
      giorni_lavorativi_2025 |-> g[1],
      giorni_lavorativi_2026 |-> g[2] ]

\* lines 112-140: _page_add.  Line 119 calls st.text_text_input, which the
\* streamlit module does not have: the render ends there, before the
\* submit button of line 121 and the insert of line 135
RichiestePageAdd ==
    \E email \in Emails, data_inizio \in FormDates, data_fine \in FormDates,
       submitted \in BOOLEAN :
        /\ op' = "_page_add"
        /\ args' = <<email, data_inizio, data_fine, submitted>>
        /\ ret' = <<"raise", "AttributeError">>
        /\ sent' = <<>>
        /\ UNCHANGED <<HOLIDAYS, df_req, frames, session_state>>

\* lines 172-191: the exception the default values of the edit form raise
\* for the selected row, "" when there is none
edit_form_error(row) ==
    IF to_datetime_date_error(row.data_inizio) # ""
    THEN to_datetime_date_error(row.data_inizio)
    ELSE IF to_datetime_date_error(row.data_fine) # ""
    THEN to_datetime_date_error(row.data_fine)
    ELSE IF \A i \in 1..Len(StatusOptions) : StatusOptions[i] # row.status
    THEN "ValueError"
    ELSE ""

\* lines 196-207: the payload of the edit form
edit_payload(email, data_inizio, data_fine, motivo, note, status) ==
    LET g == calcola_giorni_2025_2026(data_inizio, data_fine) IN
    [ dipendente_email |-> email,
      data_inizio |-> isoformat(data_inizio),
      data_fine |-> isoformat(data_fine),
      motivo |-> motivo,
      note |-> note,
      status |-> status,
      giorni_lavorativi_2025 |-> g[1],
      giorni_lavorativi_2026 |-> g[2] ]

\* lines 146-223: _page_edit_delete on the table df_req, with the row
\* selected, the dates and status entered and the button pressed
\* ("Salva modifiche", "Elimina questa richiesta" or none)
RichiestePageEditDelete ==
    \E k \in 1..max(1, Len(df_req)), data_inizio \in FormDates, data_fine \in FormDates,
       status \in { StatusOptions[1], StatusOptions[2] },
       pressed \in { "none", "Salva modifiche", "Elimina questa richiesta" } :
        /\ op' = "_page_edit_delete"
        /\ IF df_req = <<>>
           THEN \* lines 149-151
                /\ args' = <<>>
                /\ ret' = <<"return", None>>
                /\ sent' = <<>>
           ELSE LET row == df_req[k]
                    req_id == row.id
                    payload == edit_payload(row.dipendente_email, data_inizio,
                                            data_fine, "", "", status)
                IN
                /\ args' = <<k, data_inizio, data_fine, status, pressed>>
                /\ IF edit_form_error(row) # ""
                   THEN /\ ret' = <<"raise", edit_form_error(row)>>
                        /\ sent' = <<>>
                   ELSE /\ ret' = <<"return", None>>
                        /\ sent' =
                             IF pressed = "Salva modifiche"
                             THEN <<db_update(session_state, TABLE_RICHIESTE,
                                              "id=eq." \o req_id, payload)>>
                             ELSE IF pressed = "Elimina questa richiesta"
                             THEN <<db_delete(session_state, TABLE_RICHIESTE,
                                              "id=eq." \o req_id)>>
                             ELSE <<>>
        /\ UNCHANGED <<HOLIDAYS, df_req, frames, session_state>>

NextRichieste == RichiestePageAdd \/ RichiestePageEditDelete

SpecRichieste == InitRichieste /\ [][NextRichieste]_vars

-----------------------------------------------------------------------------
(* The bulk import of employees: views/dipendenti.py _page_import and the  *)
(* "Import" action of render_dipendenti in app/app.py                      *)
(*                                                                         *)
(* A text cell of the uploaded file is held as <<text>>, a missing cell    *)
(* (None after the clean-up of lines 125-126) as <<>>.                     *)

\* the cells of the "email" column of the file
ImportCells == { <<"a@x.it">>, <<"">>, None }

\* the files: with or without a "last_updated" column, up to ImportRows rows
ImportFiles ==
    UNION { [1..n -> [ email : ImportCells ]] : n \in 0..ImportRows }
      \cup UNION { [1..n -> [ email : ImportCells, last_updated : { <<"2025-01-01">> } ]] :
                     n \in 1..ImportRows }

\* views/dipendenti.py lines 137-141: the payload of a row
import_payload(row) ==
    LET cleaned == [ k \in DOMAIN row |->
                       IF row[k] = None \/ row[k] \in { <<"">>, <<"nan">>, <<"None">> }
                       THEN None ELSE row[k] ]
    IN  [ k \in (DOMAIN cleaned) \ {"last_updated"} |-> cleaned[k] ]

\* app/app.py lines 565-572: the payload of a row
app_import_payload(row) ==
    LET cleaned == [ k \in DOMAIN row |->
                       IF row[k] = None
                            \/ row[k] \in { <<"None">>, <<"nan">>, <<"NaN">>, <<"">> }
                       THEN None ELSE row[k] ]
    IN  [ k \in (DOMAIN cleaned) \ {"last_updated"} |-> cleaned[k] ]

\* the state of the loop: the tallies and the requests sent so far
ImportState(successes, failures, requests) ==
    [ successes |-> successes, failures |-> failures, sent |-> requests ]

\* slip: the loop left at the first rejected row
RECURSIVE import_loop_stops(_, _, _, _, _)
import_loop_stops(s, df_up, rs, i, st) ==
    IF i > Len(df_up) THEN st
    ELSE
      LET payload == import_payload(df_up[i])
          q == db_insert(s, TABLE_DIPENDENTI, payload)
      IN  IF rs[i].status_code < 300
          THEN import_loop_stops(s, df_up, rs, i + 1,
                   ImportState(st.successes + 1, st.failures, Append(st.sent, q)))
          ELSE ImportState(st.successes,
                           Append(st.failures, [ row |-> payload, error |-> rs[i].text ]),
                           Append(st.sent, q))

\* views/dipendenti.py lines 133-148: the loop from row i on, rs[i] the
\* answer to the insert of row i
RECURSIVE import_loop(_, _, _, _, _)
import_loop(s, df_up, rs, i, st) ==
    IF i > Len(df_up) THEN st
    ELSE
      LET payload == import_payload(df_up[i])
          q == db_insert(s, TABLE_DIPENDENTI, payload)
      IN  IF rs[i].status_code < 300
          THEN import_loop(s, df_up, rs, i + 1,
                   ImportState(st.successes + 1, st.failures, Append(st.sent, q)))
          ELSE import_loop(s, df_up, rs, i + 1,
                   ImportState(st.successes,
                               Append(st.failures, [ row |-> payload, error |-> rs[i].text ]),
                               Append(st.sent, q)))

\* app/app.py lines 559-585: the loop from row i on
RECURSIVE app_import_loop(_, _, _, _, _)
app_import_loop(s, df_upload, rs, i, st) ==
    IF i > Len(df_upload) THEN st
    ELSE
      LET payload == app_import_payload(df_upload[i])
          q == [ method |-> "POST", url |-> "/rest/v1/dipendenti",
                 headers |-> app_get_auth_headers(s), json |-> payload ]
      IN  IF rs[i].status_code < 300
          THEN app_import_loop(s, df_upload, rs, i + 1,
                   ImportState(st.successes + 1, st.failures, Append(st.sent, q)))
          ELSE app_import_loop(s, df_upload, rs, i + 1,
                   ImportState(st.successes,
                               Append(st.failures, [ row |-> payload, error |-> rs[i].text ]),
                               Append(st.sent, q)))

InitImport ==
    /\ HOLIDAYS = HolidayDates
    /\ df_req = <<>>
    /\ op = "none"
    /\ args = <<>>
    /\ ret = <<"return", ImportState(0, <<>>, <<>>)>>
    /\ frames = <<>>
    /\ session_state = LoggedIn
    /\ sent = <<>>

\* views/dipendenti.py lines 111-154: _page_import with a file uploaded or
\* not and "Importa nel database" pressed or not; the run reports the
\* tallies it shows
DipendentiPageImport ==
    \E uploaded \in BOOLEAN, pressed \in BOOLEAN, df_up \in ImportFiles :
    \E rs \in (IF uploaded /\ pressed
                THEN [ 1..Len(df_up) -> WriteResponses ] ELSE { <<>> }) :
        LET out == IF uploaded /\ pressed
                   THEN import_loop(session_state, df_up, rs, 1, ImportState(0, <<>>, <<>>))
                   ELSE ImportState(0, <<>>, <<>>)
        IN
        /\ (~uploaded => (~pressed /\ df_up = <<>>))
        /\ op' = "_page_import"
        /\ args' = <<uploaded, pressed, df_up, rs>>
        /\ sent' = out.sent
        /\ ret' = <<"return", out>>
        /\ UNCHANGED <<HOLIDAYS, df_req, frames, session_state>>

\* app/app.py lines 455-461 and 530-592: the "Import" action
AppImport ==
    \E uploaded \in BOOLEAN, pressed \in BOOLEAN, df_upload \in ImportFiles :
    \E rs \in (IF uploaded /\ pressed
                THEN [ 1..Len(df_upload) -> WriteResponses ] ELSE { <<>> }) :
        LET headers == app_get_auth_headers(session_state)
            out == IF headers # None /\ uploaded /\ pressed
                   THEN app_import_loop(session_state, df_upload, rs, 1,
                                        ImportState(0, <<>>, <<>>))
                   ELSE ImportState(0, <<>>, <<>>)
        IN
        /\ (~uploaded => (~pressed /\ df_upload = <<>>))
        /\ op' = "render_dipendenti"
        /\ args' = <<uploaded, pressed, df_upload, rs>>
        /\ sent' = out.sent
        /\ ret' = <<"return", out>>
        /\ UNCHANGED <<HOLIDAYS, df_req, frames, session_state>>

NextImport == DipendentiPageImport \/ AppImport

SpecImport == InitImport /\ [][NextImport]_vars

-----------------------------------------------------------------------------
(* The filters of the dashboard: render_home in views/home.py (lines       *)
(* 20-109) and in app/app.py (lines 115-237)                               *)
(*                                                                         *)
(* A multiselect is the set of the options selected.  The "Periodo" input  *)
(* gives a pair of dates, one date alone while the range is being picked,  *)
(* and is None when the widget is not shown.                               *)

\* lines 70 and 102: the start of a row, parsed with errors="coerce"
row_start(r) == to_datetime_coerce(r.data_inizio)

\* slip: the fillna left out, a missing end stays missing
row_end_no_fillna(r) == to_datetime_coerce(r.data_fine)

\* lines 71-74 and 103-106: the end of a row, a missing end filled with the
\* start, parsed with errors="coerce"
row_end(r) ==
    to_datetime_coerce(IF r.data_fine = None THEN r.data_inizio ELSE r.data_fine)

\* line 108: the mask of a row; a comparison with NaT is False
period_mask(r, start_sel, end_sel) ==
    /\ row_end(r) # NaT /\ Timestamp_date(row_end(r)) >= start_sel
    /\ row_start(r) # NaT /\ Timestamp_date(row_start(r)) <= end_sel

\* df[df[column].isin(values)]
isin(df, column, values) == SelectSeq(df, LAMBDA r : r[column] \in values)

\* the values of a column
column(df, name) == { df[i][name] : i \in 1..Len(df) }

\* lines 75-76: whether min_date and max_date are dates (not NaT)
has_min_max(df) ==
    /\ \E i \in 1..Len(df) : row_start(df[i]) # NaT
    /\ \E i \in 1..Len(df) : row_end(df[i]) # NaT

\* views/home.py lines 68-79: what "Periodo" gives, shown only for a table
\* with rows
date_input(df, picked) == IF df # <<>> THEN picked ELSE None

\* app/app.py lines 167-189: what "Periodo" gives, shown only for a table
\* with rows whose first start and last end are dates
app_date_input(df, picked) == IF df # <<>> /\ has_min_max(df) THEN picked ELSE None

\* what the page shows: what "Periodo" gave, the employees left, the requests
\* left by the status and employee filters, and those left by the period
\* filter as well
Filtered(date_range, df_dip_f, df_req_sel, df_req_f) ==
    [ date_range |-> date_range, df_dip_f |-> df_dip_f,
      df_req_sel |-> df_req_sel, df_req_f |-> df_req_f ]

\* views/home.py lines 67-109, given the tables, the selections and what the
\* user picked in "Periodo"
home_filters(df_dip, df, selected_bu, selected_levels, selected_status, picked) ==
    LET \* lines 68-79
        date_range == date_input(df, picked)
        \* lines 84-91
        dip1 == IF selected_bu # {} THEN isin(df_dip, "business_unit", selected_bu) ELSE df_dip
        dip2 == IF selected_levels # {} THEN isin(dip1, "level", selected_levels) ELSE dip1
        \* lines 93-94
        req1 == IF selected_status # {} THEN isin(df, "status", selected_status) ELSE df
        \* lines 96-97
        req2 == IF dip2 # <<>> THEN isin(req1, "dipendente_email", column(dip2, "email"))
                ELSE req1
        \* lines 99-109
        req3 == IF date_range # None
                THEN SelectSeq(req2, LAMBDA r : period_mask(r, date_range[1], date_range[2]))
                ELSE req2
    IN  IF df # <<>> /\ ~has_min_max(df)
        THEN \* lines 75-79: NaT.date() is NaT, which st.date_input does not
             \* take as a default
             <<"raise", "Exception">>
        ELSE IF df = <<>> /\ dip2 # <<>>
        THEN \* line 97: an empty DataFrame has no column "dipendente_email"
             <<"raise", "KeyError">>
        ELSE IF Len(date_range) = 1
        THEN \* line 100: one date cannot be unpacked into two
             <<"raise", "ValueError">>
        ELSE <<"return", Filtered(date_range, dip2, req2, req3)>>

\* app/app.py lines 166-237
app_home_filters(df_dip, df, selected_bu, selected_levels, selected_status, picked) ==
    LET \* lines 167-189
        date_range == app_date_input(df, picked)
        \* lines 199-203
        dip1 == IF df_dip # <<>> /\ selected_bu # {}
                THEN isin(df_dip, "business_unit", selected_bu) ELSE df_dip
        dip2 == IF df_dip # <<>> /\ selected_levels # {}
                THEN isin(dip1, "level", selected_levels) ELSE dip1
        \* lines 206-209
        req1 == IF df # <<>> /\ selected_status # {}
                THEN isin(df, "status", selected_status) ELSE df
        \* lines 212-215
        req2 == IF df # <<>> /\ dip2 # <<>>
                THEN isin(req1, "dipendente_email", column(dip2, "email"))
                ELSE req1
        \* lines 218-237
        req3 == IF df # <<>> /\ Len(date_range) = 2
                THEN SelectSeq(req2, LAMBDA r : period_mask(r, date_range[1], date_range[2]))
                ELSE req2
    IN  <<"return", Filtered(date_range, dip2, req2, req3)>>

\* the employee table of a render
Employees ==
    << [ email |-> "a@x.it", business_unit |-> "Sales", level |-> "Junior" ],
       [ email |-> "b@x.it", business_unit |-> "Ops", level |-> "Senior" ] >>

\* no employee fetched, or all of them
HomeDipTables == { <<>>, Employees }

\* requests that differ in employee and status
HomeRequests ==
    [ dipendente_email : {"a@x.it", "b@x.it"}, status : {"PENDING", "APPROVED"},
      data_inizio : {<<2025, 12, 1>>}, data_fine : {<<2025, 12, 5>>} ]

\* requests that differ in their dates: in order, swapped, without an end,
\* with a start or an end that does not parse
PeriodRequests ==
    [ dipendente_email : {"a@x.it"}, status : {"PENDING"},
      data_inizio : {<<2025, 12, 1>>, <<2025, 12, 10>>, BadDate},
      data_fine : {<<2025, 12, 5>>, None, BadDate} ]

HomeTables ==
    UNION { [1..n -> HomeRequests] \cup [1..n -> PeriodRequests] : n \in 0..HomeRows }

\* a range, or its first date alone while the second is being picked
Picks ==
    { <<date(2025, 12, 1), date(2025, 12, 5)>>, <<date(2025, 12, 5), date(2025, 12, 10)>>,
      <<date(2025, 12, 5)>> }

\* the employee table, the selections among the options the tables offer,
\* and what is picked in "Periodo"
HomeInputs(df) ==
    { a \in HomeDipTables \X (SUBSET {"Sales", "Ops"}) \X (SUBSET {"Junior", "Senior"})
              \X (SUBSET {"PENDING", "APPROVED"}) \X Picks :
        /\ a[2] \subseteq column(a[1], "business_unit")
        /\ a[3] \subseteq column(a[1], "level")
        /\ a[4] \subseteq column(df, "status") }

InitHome ==
    /\ HOLIDAYS = HolidayDates
    /\ df_req \in HomeTables
    /\ op = "none"
    /\ args \in HomeInputs(df_req)
    /\ ret = <<"return", None>>
    /\ frames = <<>>
    /\ session_state = LoggedIn
    /\ sent = <<>>

\* views/home.py render_home, up to the filtered tables the page shows
RenderHome ==
    /\ op' = "views.home.render_home"
    /\ ret' = home_filters(args[1], df_req, args[2], args[3], args[4], args[5])
    /\ sent' = <<>>
    /\ UNCHANGED <<HOLIDAYS, df_req, args, frames, session_state>>

\* app/app.py render_home, up to the filtered tables the page shows
AppRenderHome ==
    /\ op' = "app.render_home"
    /\ ret' = app_home_filters(args[1], df_req, args[2], args[3], args[4], args[5])
    /\ sent' = <<>>
    /\ UNCHANGED <<HOLIDAYS, df_req, args, frames, session_state>>

NextHome == RenderHome \/ AppRenderHome

SpecHome == InitHome /\ [][NextHome]_vars

-----------------------------------------------------------------------------
(* Vocabulary of the claims, stated without the code's own helpers *)

\* 2025-12-06 was a Saturday
IsSatOrSun(d) == (d - date(2025, 12, 6)) % 7 \in {0, 1}

\* the calendar days of year y
YearDays(y) == date(y, 1, 1)..date(y, 12, 31)

\* the normalized interval of a call calcola_giorni_2025_2026(a, b)
Interval(a, b) == (IF a <= b THEN a ELSE b)..(IF a <= b THEN b ELSE a)

IsWD == op = "is_working_day"
IsCalc == op = "calcola_giorni_2025_2026"
IsMonth == op = "giorni_ferie_in_mese"

\* the calendar days of month m of year y
MonthDays(y, m) == { date(y, m, k) : k \in 1..days_in_month(y, m) }

\* the calendar date an ISO date string names
CellDate(x) == date(x[1], x[2], x[3])

\* a request row whose two dates are both present and parseable
ValidRow(r) == r.data_inizio # None /\ r.data_fine # None

\* the inclusive interval a valid request row asks for
RowInterval(r) == Interval(CellDate(r.data_inizio), CellDate(r.data_fine))

\* the sum of f over the finite set S of its domain
RECURSIVE Sum(_, _)
Sum(f, S) ==
    IF S = {} THEN 0
    ELSE LET x == CHOOSE x \in S : TRUE IN f[x] + Sum(f, S \ {x})

\* the table made of the one row r
Single(r) == <<r>>

\* the table df with its rows i and j exchanged
Exchanged(df, i, j) ==
    [ k \in 1..Len(df) |-> IF k = i THEN df[j] ELSE IF k = j THEN df[i] ELSE df[k] ]

-----------------------------------------------------------------------------
(* Claims on is_working_day and calcola_giorni_2025_2026, under SpecCalc *)

\* C1: is_working_day(d) is false for every Saturday and Sunday, and false
\* for each of the five holiday dates (all of which fall on Monday..Friday).
C1_WeekendAndHolidayAreNotWorking ==
    /\ \A h \in HolidayDates : ~IsSatOrSun(h)
    /\ IsWD =>
         LET d == args[1] IN
         (IsSatOrSun(d) \/ d \in HolidayDates) => ret = FALSE

C1_Witness ==
    IsWD /\ args[1] = date(2026, 1, 6) /\ ~IsSatOrSun(args[1]) /\ ret = FALSE

\* C2: is_working_day(d) is true for every date that is neither a Saturday
\* or Sunday nor in the holiday set, and it always returns a boolean.
C2_OtherDaysAreWorking ==
    IsWD =>
      LET d == args[1] IN
      /\ ret \in BOOLEAN
      /\ (~IsSatOrSun(d) /\ d \notin HolidayDates) => ret = TRUE

\* 1 January 2025, a Wednesday that is not in the holiday set
C2_Witness ==
    IsWD /\ args[1] = date(2025, 1, 1) /\ ret = TRUE

C4_YearSplitSymmetric ==
    IsCalc => ret = calcola_giorni_2025_2026(args[2], args[1])

C4_Witness ==
    IsCalc /\ args[1] > args[2] /\ ret[1] > 0 /\ ret[2] > 0

\* C5: an interval wholly before 2025 or wholly after 2026 gives (0, 0); one
\* wholly inside 2025 gives 0 for 2026; one wholly inside 2026 gives 0 for
\* 2025; each case returns a pair of counts.
C5_OutsideYearIsZero ==
    IsCalc =>
      LET I == Interval(args[1], args[2]) IN
      /\ (\A d \in I : d < date(2025, 1, 1)) => ret = <<0, 0>>
      /\ (\A d \in I : d > date(2026, 12, 31)) => ret = <<0, 0>>
      /\ I \subseteq YearDays(2025) => ret[2] = 0
      /\ I \subseteq YearDays(2026) => ret[1] = 0

\* three days wholly before 2025
C5_Witness ==
    IsCalc /\ args = <<date(2024, 12, 29), date(2024, 12, 31)>> /\ ret = <<0, 0>>

-----------------------------------------------------------------------------
(* Claims on the monthly counter giorni_ferie_in_mese, under SpecMonth *)

\* C8: on a table whose rows all have valid dates, the monthly counter
\* returns the sum over the rows of the number of dates d, in the inclusive
\* intersection of the row's interval with the month, for which
\* is_working_day(d) is true; a row that misses the month adds 0.
C8_MonthlyCountsWorkingDays ==
    (IsMonth /\ \A i \in 1..Len(df_req) : ValidRow(df_req[i])) =>
      LET M == MonthDays(args[1], args[2])
          n == [ i \in 1..Len(df_req) |->
                   Cardinality({ d \in RowInterval(df_req[i]) \cap M :
                                   is_working_day(d) }) ]
      IN  /\ ret = Sum(n, 1..Len(df_req))
          /\ \A i \in 1..Len(df_req) :
               RowInterval(df_req[i]) \cap M = {} => n[i] = 0

\* a reversed row over December and a row in January 2026 that adds nothing
C8_Witness ==
    /\ IsMonth
    /\ df_req = << [data_inizio |-> <<2025, 12, 31>>, data_fine |-> <<2025, 12, 1>>],
                   [data_inizio |-> <<2026, 1, 7>>, data_fine |-> <<2026, 1, 7>>] >>
    /\ args = <<2025, 12>>
    /\ ret = 20

\* C9: the single interval [2025-12-01, 2025-12-31] counted for December
\* 2025 gives 31 less the 8 weekend days of the month less the 3 holidays
\* 8, 25 and 26 December, that is 20.
C9_December2025 ==
    ( /\ IsMonth
      /\ df_req = << [data_inizio |-> <<2025, 12, 1>>, data_fine |-> <<2025, 12, 31>>] >>
      /\ args = <<2025, 12>> ) =>
        /\ ret = 20
        /\ ret = 31 - Cardinality({ d \in MonthDays(2025, 12) : IsSatOrSun(d) })
                    - Cardinality(HolidayDates \cap MonthDays(2025, 12))
        /\ Cardinality({ d \in MonthDays(2025, 12) : IsSatOrSun(d) }) = 8
        /\ HolidayDates \cap MonthDays(2025, 12)
             = { date(2025, 12, 8), date(2025, 12, 25), date(2025, 12, 26) }

C9_Witness ==
    /\ IsMonth
    /\ df_req = << [data_inizio |-> <<2025, 12, 1>>, data_fine |-> <<2025, 12, 31>>] >>
    /\ args = <<2025, 12>>
    /\ ret = 31 - 8 - 3

\* C10: the monthly counter over a table equals the sum of the monthly
\* counter over each of its rows alone (so a day requested by two rows is
\* counted twice), and it is the same with any two rows exchanged, hence
\* (every table being an input) for every order of the rows.
C10_BatchAdditive ==
    IsMonth =>
      LET one == [ i \in 1..Len(df_req) |->
                     giorni_ferie_in_mese(Single(df_req[i]), args[1], args[2]) ]
      IN  /\ ret = Sum(one, 1..Len(df_req))
          /\ \A i, j \in 1..Len(df_req) :
               i < j => ret = giorni_ferie_in_mese(Exchanged(df_req, i, j), args[1], args[2])

\* the same interval twice: each of its 20 working days is counted twice
C10_Witness ==
    /\ IsMonth
    /\ Len(df_req) = 2
    /\ df_req[1] = df_req[2]
    /\ df_req[1] = [data_inizio |-> <<2025, 12, 1>>, data_fine |-> <<2025, 12, 31>>]
    /\ args = <<2025, 12>>
    /\ ret = 40

-----------------------------------------------------------------------------
(* Claims on malformed input *)

\* C11: no calculator operation raises: on every input, missing, unparseable
\* or reversed dates included, is_working_day returns a boolean,
\* calcola_giorni_2025_2026 returns its pair of counts and the monthly
\* counter returns a count.
C11_NoOperationRaises ==
    /\ IsWD => ret \in BOOLEAN
    /\ IsCalc => Len(ret) = 2
    /\ IsMonth => ret \in Nat

\* a cell that holds a date: neither missing nor the unparseable string
Parseable(x) == x # None /\ x # BadDate

GoodRow(r) == Parseable(r.data_inizio) /\ Parseable(r.data_fine)

\* the table df without the rows that miss a date
GoodRows(df) == SelectSeq(df, GoodRow)

\* C12: a row whose start or end date is missing or unparseable adds 0 to
\* the monthly count and leaves the other rows' contribution as it is: the
\* count of a table is the count of the table without those rows; an empty
\* (or absent) table, and a table of such rows only, count 0.
C12_BadRowsCountZero ==
    IsMonth =>
      /\ ret = giorni_ferie_in_mese(GoodRows(df_req), args[1], args[2])
      /\ \A i \in 1..Len(df_req) :
           ~GoodRow(df_req[i]) =>
               giorni_ferie_in_mese(Single(df_req[i]), args[1], args[2]) = 0
      /\ GoodRows(df_req) = <<>> => ret = 0

\* a row without end date next to the whole of December 2025
C12_Witness ==
    /\ IsMonth
    /\ df_req = << [data_inizio |-> <<2025, 12, 1>>, data_fine |-> None],
                   [data_inizio |-> <<2025, 12, 1>>, data_fine |-> <<2025, 12, 31>>] >>
    /\ args = <<2025, 12>>
    /\ ret = 20

-----------------------------------------------------------------------------
(* Further claims on the monthly counter, under SpecMonth *)

\* the table df with the start and end date of its row i exchanged
Flipped(df, i) ==
    [ k \in 1..Len(df) |->
        IF k = i THEN [ data_inizio |-> df[k].data_fine,
                        data_fine   |-> df[k].data_inizio ]
        ELSE df[k] ]

\* C13: the monthly count of a row (start = a, end = b) is that of the row
\* (start = b, end = a), whatever the month; and the exchange of a reversed
\* row's dates leaves every row with its own two dates, start first.
C13_ReversedRowSwapped ==
    IsMonth =>
      LET loc   == parse_and_dropna(df_req)
          fixed == fix_swapped(loc)
      IN  /\ \A i \in 1..Len(df_req) :
               ret = giorni_ferie_in_mese(Flipped(df_req, i), args[1], args[2])
          /\ Len(fixed) = Len(loc)
          /\ \A j \in 1..Len(loc) :
               /\ {fixed[j].data_inizio, fixed[j].data_fine}
                    = {loc[j].data_inizio, loc[j].data_fine}
               /\ fixed[j].data_inizio <= fixed[j].data_fine

\* a reversed row over December 2025, before a row in the right order
C13_Witness ==
    /\ IsMonth
    /\ df_req = << [data_inizio |-> <<2025, 12, 31>>, data_fine |-> <<2025, 12, 1>>],
                   [data_inizio |-> <<2025, 12, 1>>, data_fine |-> <<2026, 1, 7>>] >>
    /\ args = <<2025, 12>>
    /\ ret = 40

-----------------------------------------------------------------------------
(* Claims on all three operations, under SpecSeq *)

\* C14: every count is a non-negative integer: both components of
\* calcola_giorni_2025_2026 and the result of the monthly counter.
C14_CountsNonNegative ==
    /\ IsCalc => ret[1] \in Nat /\ ret[2] \in Nat
    /\ IsMonth => ret \in Nat

\* a day after 2026: without the clamp both components would be negative
C14_Witness ==
    IsCalc /\ args = <<date(2027, 1, 1), date(2027, 1, 1)>> /\ ret = <<0, 0>>

-----------------------------------------------------------------------------
(* Claim on the month window, under SpecWindow *)

IsWindow == op = "month_window"

\* C15: the month window is [first day of the month, last day of the
\* month]: the day after the last day is the first day of the following
\* month, December ends on 31 December of the same year, and February ends
\* on the 29th in a leap year and on the 28th otherwise.
C15_MonthWindow ==
    IsWindow =>
      LET y == args[1]
          m == args[2]
          leap == y % 4 = 0 /\ (y % 100 # 0 \/ y % 400 = 0)
      IN  /\ isoformat(ret[1]) = <<y, m, 1>>
          /\ isoformat(ret[2])[1] = y /\ isoformat(ret[2])[2] = m
          /\ isoformat(ret[2] + 1) = IF m = 12 THEN <<y + 1, 1, 1>> ELSE <<y, m + 1, 1>>
          /\ m = 12 => isoformat(ret[2]) = <<y, 12, 31>>
          /\ m = 2 => isoformat(ret[2])[3] = IF leap THEN 29 ELSE 28
          /\ m \in {4, 6, 9, 11} => isoformat(ret[2])[3] = 30
          /\ m \in {1, 3, 5, 7, 8, 10} => isoformat(ret[2])[3] = 31

\* February of the leap year 2028
C15_Witness ==
    IsWindow /\ args = <<2028, 2>> /\ isoformat(ret[2]) = <<2028, 2, 29>>

\* C16: whatever calls came before, in the state a call leaves the same
\* call with the same inputs returns the same result again; a call that
\* repeats the one before it returns what that one returned; and no step
\* changes what is_working_day answers for any date: no result depends on
\* state left behind by earlier calls.
C16_Deterministic ==
    /\ [] /\ IsWD => ret = is_working_day(args[1])
          /\ IsCalc => ret = calcola_giorni_2025_2026(args[1], args[2])
          /\ IsMonth => ret = giorni_ferie_in_mese(df_req, args[1], args[2])
    /\ [][ /\ \A d \in SeqDates : is_working_day(d)' = is_working_day(d)
           /\ (op' = op /\ args' = args /\ df_req' = df_req) => ret' = ret
         ]_vars

\* the monthly counter called after other calls, and called again in the
\* state it left
C16_Witness ==
    /\ IsMonth
    /\ df_req = << [data_inizio |-> <<2025, 12, 1>>, data_fine |-> <<2025, 12, 31>>] >>
    /\ args = <<2025, 12>>
    /\ ret = 20
    /\ giorni_ferie_in_mese(df_req, 2025, 12) = ret

\* C17: no operation has a side effect: the holiday set is always its five
\* initial dates, and no call, the monthly counter included, changes the
\* request table it is given.
C17_NoSideEffects ==
    /\ HOLIDAYS = HolidayDates
    /\ Cardinality(HOLIDAYS) = 5
    /\ [][HOLIDAYS' = HOLIDAYS /\ df_req' = df_req]_vars

\* the monthly counter has counted a reversed row, and the table still
\* holds the row reversed
C17_Witness ==
    /\ IsMonth
    /\ df_req = << [data_inizio |-> <<2025, 12, 31>>, data_fine |-> <<2025, 12, 1>>] >>
    /\ args = <<2025, 12>>
    /\ ret = 20
    /\ HOLIDAYS = HolidayDates

\* C18: in every interleaving of the callers' steps, a call that has
\* returned has returned what the same call returns when it runs alone on
\* the same table: the sequential function applied to its inputs.
C18_ConcurrentCallsAsAlone ==
    \A c \in Callers :
        frames[c].pc = "done" =>
            /\ frames[c].op = "is_working_day" =>
                  frames[c].ret = is_working_day(frames[c].args[1])
            /\ frames[c].op = "calcola_giorni_2025_2026" =>
                  frames[c].ret =
                      calcola_giorni_2025_2026(frames[c].args[1], frames[c].args[2])
            /\ frames[c].op = "giorni_ferie_in_mese" =>
                  frames[c].ret =
                      giorni_ferie_in_mese(df_req, frames[c].args[1], frames[c].args[2])

\* one caller has returned the 20 working days of December 2025 while
\* another, counting January 2026 on the same table, is between its loop
\* and its return
C18_Witness ==
    /\ df_req = <<[data_inizio |-> <<2025, 12, 1>>, data_fine |-> <<2026, 1, 7>>]>>
    /\ frames[1].pc = "done" /\ frames[1].op = "giorni_ferie_in_mese"
    /\ frames[1].args = <<2025, 12>> /\ frames[1].ret = 20
    /\ frames[2].pc = "loop" /\ frames[2].args = <<2026, 1>>
    /\ frames[2].i = 2 /\ frames[2].total = 3

-----------------------------------------------------------------------------
(* Claims relating the year split to the interval and to the monthly counter, *)
(* under SpecCalc                                                             *)

YearOfMonths(a, b, y) ==
    LET df == Single([ data_inizio |-> isoformat(a), data_fine |-> isoformat(b) ])
    IN  Sum([ m \in 1..12 |-> giorni_ferie_in_mese(df, y, m) ], 1..12)

-----------------------------------------------------------------------------
(* Claims on the session, the login gate and the REST calls *)

IsLogin == op \in {"utils.auth.login", "app.login"}

HasToken(s) == "access_token" \in DOMAIN s

HasEmail(s) == "user_email" \in DOMAIN s

\* C23: login returns True only when the auth endpoint answered 200, and
\* then the session holds the token of the answer and a user_email; for
\* every other status it returns False and the session state is what it was
\* before the call, so that no access_token appears.
C23_LoginOnlyOn200 ==
    [][ IsLogin' =>
          LET r == args'[3] IN
          /\ (ret'[1] = "return" /\ ret'[2]) =>
                /\ r.status_code = 200
                /\ HasToken(session_state')
                /\ session_state'["access_token"] = r.json["access_token"]
                /\ HasEmail(session_state')
          /\ r.status_code # 200 =>
                /\ ret'[1] = "return" /\ ret'[2] = FALSE
                /\ session_state' = session_state
                /\ HasToken(session_state') <=> HasToken(session_state)
      ]_vars

\* a login refused with status 400 while nobody is logged in
C23_Witness ==
    /\ op = "utils.auth.login" /\ args[3].status_code = 400
    /\ ret = <<"return", FALSE>>
    /\ session_state = <<>>
    /\ Len(sent) = 1

IsLogout == op \in {"utils.auth.logout", "app.logout"}

\* C24: after any sequence of login attempts and logouts the session holds
\* an access_token if and only if it holds a user_email; a logout leaves
\* neither key, changes nothing in a session that is already logged out,
\* and leaves the session in the state in which main shows the login form.
C24_TokenIffEmail ==
    /\ [](HasToken(session_state) <=> HasEmail(session_state))
    /\ [][ IsLogout' =>
             /\ ~HasToken(session_state') /\ ~HasEmail(session_state')
             /\ (~HasToken(session_state) /\ ~HasEmail(session_state))
                    => session_state' = session_state
         ]_vars

\* the table a fetch returns is the rows of a 200 answer that holds rows
IsFetch == op = "fetch_table"

IsWrite(q) == q.method \in {"POST", "PATCH", "DELETE"} /\ q.url # login_request("", "").url

\* C26: every insert, update or delete request sent carries the apikey and
\* "Authorization: Bearer <access_token>" built from the current session,
\* and none is sent while the session has no non-empty access token.
C26_NoUnauthenticatedWrite ==
    \A i \in 1..Len(sent) :
        IsWrite(sent[i]) =>
            /\ HasToken(session_state)
            /\ session_state["access_token"] # ""
            /\ sent[i].headers # None
            /\ sent[i].headers.apikey = API_KEY
            /\ sent[i].headers.Authorization = "Bearer " \o session_state["access_token"]

IsMain == op = "main"

\* the requests to the backend tables, reads and writes
IsRest(q) == q.url # login_request("", "").url

\* C22: a run enters the main app (the two tables fetched, a section
\* rendered) only from a session that holds an access_token; a run that
\* starts without one shows the login form only, sends nothing to the
\* tables and renders no section.
C22_LoginGate ==
    [][ IsMain' =>
          /\ (ret'.shown = "main_app" \/ ret'.section # "none"
                \/ \E i \in 1..Len(sent') : IsRest(sent'[i]))
                => HasToken(session_state)
          /\ ~HasToken(session_state) =>
                /\ ret'.shown = "login_form"
                /\ ret'.section = "none"
                /\ \A i \in 1..Len(sent') : ~IsRest(sent'[i])
      ]_vars

\* logged in, the Home section rendered after the two fetches
C22_Witness ==
    /\ IsMain /\ ret.shown = "main_app" /\ ret.section = "Home"
    /\ HasToken(session_state)
    /\ Len(sent) = 2 /\ IsRest(sent[1]) /\ IsRest(sent[2])

-----------------------------------------------------------------------------
(* Claims on the pages *)

\* C21: a submit of the new-request form sends exactly one insert to
\* richieste_ferie, and a save of the edit form exactly one update of
\* richieste_ferie restricted to "id=eq.<the selected id>"; the fields
\* giorni_lavorativi_2025 and giorni_lavorativi_2026 of the payload are the
\* two components of calcola_giorni_2025_2026 on the dates of that form.
C21_FormsSendOneWrite ==
    /\ (op = "_page_add" /\ args[4]) =>
          /\ Len(sent) = 1
          /\ sent[1].method = "POST"
          /\ sent[1].url = "/rest/v1/richieste_ferie"
          /\ <<sent[1].json.giorni_lavorativi_2025, sent[1].json.giorni_lavorativi_2026>>
                = calcola_giorni_2025_2026(args[2], args[3])
    /\ (op = "_page_edit_delete" /\ args # <<>> /\ ret[1] = "return"
          /\ args[5] = "Salva modifiche") =>
          /\ Len(sent) = 1
          /\ sent[1].method = "PATCH"
          /\ sent[1].url = "/rest/v1/richieste_ferie?id=eq." \o df_req[args[1]].id
          /\ <<sent[1].json.giorni_lavorativi_2025, sent[1].json.giorni_lavorativi_2026>>
                = calcola_giorni_2025_2026(args[2], args[3])

IsImport == op \in {"_page_import", "render_dipendenti"}

\* the positions from i on, in order, of the answers with a status of 300
\* or more
RECURSIVE Rejected(_, _)
Rejected(rs, i) ==
    IF i > Len(rs) THEN <<>>
    ELSE (IF rs[i].status_code >= 300 THEN <<i>> ELSE <<>>) \o Rejected(rs, i + 1)

\* C27: pressing "Importa nel database" on a file of N rows sends exactly N
\* inserts to dipendenti, the i-th carrying row i of the file without the
\* field last_updated; the rows whose insert is answered with a status of
\* 300 or more are listed in failures, in order, and the rows after them
\* are still sent; successes + the number of failures = N, and the count
\* reported is the number of rows answered below 300.
C27_ImportSendsEveryRow ==
    (IsImport /\ args[1] /\ args[2]) =>
      LET file == args[3]
          rs   == args[4]
          N    == Len(file)
          out  == ret[2]
          rejected == Rejected(rs, 1)
      IN  /\ Len(sent) = N
          /\ \A i \in 1..N :
                /\ sent[i].method = "POST"
                /\ sent[i].url = "/rest/v1/dipendenti"
                /\ "last_updated" \notin DOMAIN sent[i].json
                /\ DOMAIN sent[i].json = (DOMAIN file[i]) \ {"last_updated"}
                /\ sent[i].json.email =
                      (IF file[i].email = <<"">> THEN None ELSE file[i].email)
          /\ Len(out.failures) = Len(rejected)
          /\ \A j \in 1..Len(rejected) :
                out.failures[j].row = sent[rejected[j]].json
          /\ out.successes + Len(out.failures) = N
          /\ out.successes = Cardinality({ i \in 1..N : rs[i].status_code < 300 })

\* two rows with a last_updated column, the first rejected, the second
\* accepted
C27_Witness ==
    /\ op = "_page_import" /\ args[1] /\ args[2]
    /\ Len(args[3]) = 2 /\ "last_updated" \in DOMAIN args[3][1]
    /\ args[4][1].status_code = 409 /\ args[4][2].status_code = 201
    /\ Len(sent) = 2
    /\ ret[2].successes = 1 /\ Len(ret[2].failures) = 1

-----------------------------------------------------------------------------
(* The filters of the dashboard *)

IsHome == op \in {"views.home.render_home", "app.render_home"}

\* what "Periodo" gave the render run last
Selected == ret[2].date_range

\* the start of a request and its end, a missing end taken as the start
StartCell(r) == r.data_inizio
EndCell(r) == IF r.data_fine = None THEN r.data_inizio ELSE r.data_fine

\* whether a request overlaps the selected range
Overlaps(r, start_sel, end_sel) ==
    /\ Parseable(StartCell(r)) /\ Parseable(EndCell(r))
    /\ CellDate(EndCell(r)) >= start_sel
    /\ CellDate(StartCell(r)) <= end_sel

C29_FiltersRestrict ==
    (IsHome /\ ret[1] = "return") =>
        \A i \in 1..Len(ret[2].df_req_f) :
            /\ ret[2].df_req_f[i].status \in args[4]
            /\ \E j \in 1..Len(ret[2].df_dip_f) :
                   ret[2].df_dip_f[j].email = ret[2].df_req_f[i].dipendente_email

=============================================================================
